---- MODULE Spec2Model ----
(***************************************************************************)
(* The round-based game state machine of WhoIsTheSpy.py: the LangGraph     *)
(* nodes generate_words, assign_roles, generate_speeches, vote_undercover, *)
(* judge_result and show_final_result, threaded over one GameState.        *)
(*                                                                         *)
(* The language model behind chain.invoke is the environment: every call   *)
(* either raises or returns a text, and the text is classified by what     *)
(* json.loads and the field look-ups of the node make of it.               *)
(*                                                                         *)
(* Strings of the source that are not ASCII are transliterated:            *)
(*   "pingmin" is the role tag of the majority (civilian) side,            *)
(*   "wodi"    is the role tag of the minority (undercover) side,          *)
(*   the six fallback word pairs are written in pinyin.                    *)
(***************************************************************************)
EXTENDS Integers, Sequences, FiniteSets, TLC

VARIABLES
    civilian_word,      \* GameState["civilian_word"]
    undercover_word,    \* GameState["undercover_word"]
    role_assignment,    \* GameState["role_assignment"]: agent -> <<role, word>>
    speeches,           \* GameState["speeches"]: agent -> text
    history_speeches,   \* GameState["history_speeches"]: sequence of speeches maps
    speech_reasoning,   \* GameState["speech_reasoning"]
    votes,              \* GameState["votes"]: agent -> agent
    vote_reasoning,     \* GameState["vote_reasoning"]
    game_status,        \* GameState["game_status"]: "running" / "end"
    winner,             \* GameState["winner"]: "" / "civilian" / "undercover"
    eliminated,         \* GameState["eliminated"]: sequence of agents
    round,              \* GameState["round"]
    node,               \* the graph node that runs next ("END" after the last)
    history_context,    \* the prompt lines generate_speeches built last
    speech_context,     \* the prompt lines vote_undercover built last
    outputs,            \* caller -> response, for the responses of the node run
                        \* last that were not the nominal ones
    exception,          \* the exception that left the graph run, "" if none
    deviations          \* responses so far that were not the nominal ones

state == <<civilian_word, undercover_word, role_assignment, speeches,
           history_speeches, speech_reasoning, votes, vote_reasoning,
           game_status, winner, eliminated, round>>
vars == <<state, node, history_context, speech_context, outputs, exception,
          deviations>>

(***************************************************************************)
(* Bounds of the environment.                                              *)
(***************************************************************************)
\* How many responses of one game differ from the nominal response (a
\* well-formed object with a statement of the asked length, or with a vote
\* for another active player).
MaxDeviations == 1
\* Length of the statement the service returns when it is too short.
ShortLen == 3

(***************************************************************************)
(* Program constants.                                                      *)
(***************************************************************************)
Agents == <<"agent1", "agent2", "agent3", "agent4">>
AgentSet == {Agents[k] : k \in 1..Len(Agents)}
Civilian == "pingmin"
Undercover == "wodi"
MinSpeechLen == 10
ReasonWidth == 50

(***************************************************************************)
(* JSON values and texts.  A JSON value is absent (the key is not in the   *)
(* object), a string, or a scalar that is no string (number, true, false,  *)
(* null).  A string is known by its content `s` once surrounding white     *)
(* space is dropped, its length `n` in characters, and whether white space *)
(* surrounds it (`pad`, one blank on each side).                           *)
(***************************************************************************)
Absent == [t |-> "absent", s |-> "", n |-> 0, pad |-> FALSE]
Scalar == [t |-> "scalar", s |-> "", n |-> 0, pad |-> FALSE]
Str(s, n) == [t |-> "str", s |-> s, n |-> n, pad |-> FALSE]
Padded(s, n) == [t |-> "str", s |-> s, n |-> n + 2, pad |-> TRUE]
EmptyStr == Str("", 0)

\* str.strip()
strip(v) == IF v.pad THEN [v EXCEPT !.pad = FALSE, !.n = v.n - 2] ELSE v

\* vote == agent, for a value and an agent's name
SameName(v, name) == v.t = "str" /\ ~v.pad /\ v.s = name

\* A text the program builds with an f-string: the round number it embeds
\* (0: none), the value it embeds, and which literal surrounds them.
Text(rnd, raw, literal) == [round |-> rnd, raw |-> raw, literal |-> literal]
Plain(v) == Text(0, v, "")

\* Characters of the literal parts of the f-strings (lines 177-189, 262).
LiteralLen(literal) ==
    CASE literal = "" -> 0
      [] literal = "civilian_pad" -> 32
      [] literal = "undercover_pad" -> 34
      [] literal = "civilian_fallback" -> 70
      [] literal = "undercover_fallback" -> 68
      [] literal = "civilian_fallback_reason" -> 33
      [] literal = "undercover_fallback_reason" -> 32
      [] literal = "vote_fallback_reason" -> 16
      [] literal = "[...]" -> 5

\* len() of a built text (a round number below 10 is one character)
TextLen(x) == (IF x.round > 0 THEN 1 ELSE 0) + x.raw.n + LiteralLen(x.literal)

\* textwrap.shorten(text, width) of a text without white space: the text
\* itself if it fits, else the placeholder alone.
shorten(x, width) == IF TextLen(x) <= width THEN x ELSE Text(0, EmptyStr, "[...]")

EmptyMap == [a \in {} |-> ""]
Response(kind, a, b) == [kind |-> kind, a |-> a, b |-> b]
Range(f) == {f[x] : x \in DOMAIN f}

\* The exception json.loads raises on the response text, "" if it parses.
\* A parsed text that is no object (a list, a number, a string, null) raises
\* TypeError at the first look-up by key.
LoadError(out) ==
    CASE out.kind = "not_json" -> "JSONDecodeError"
      [] out.kind = "not_object" -> "TypeError"
      [] OTHER -> ""

\* except (json.JSONDecodeError, KeyError)
Caught(e) == e \in {"JSONDecodeError", "KeyError"}

\* The responses of one node, whose loop calls the service for `callers` in
\* the order of Agents and stops at the first iteration that raises
\* (failure[a, o] names its exception): caller -> response for the callers
\* reached, at most `left` of the responses other than nominal (nominal[a, o]).
RECURSIVE Profiles(_, _, _, _, _)
Profiles(callers, Outs, nominal, failure, left) ==
    IF callers = {} THEN {EmptyMap}
    ELSE LET a == Agents[CHOOSE k \in 1..Len(Agents) :
                        /\ Agents[k] \in callers
                        /\ \A j \in 1..(k - 1) : Agents[j] \notin callers]
             allowed == {o \in Outs : left > 0 \/ nominal[a, o]}
         IN  UNION { IF failure[a, o] # "" THEN {(a :> o)}
                     ELSE {(a :> o) @@ f :
                             f \in Profiles(callers \ {a}, Outs, nominal, failure,
                                            IF nominal[a, o] THEN left ELSE left - 1)} :
                     o \in allowed }

\* The maps that give every key of `keys` one element of options[key].
RECURSIVE Choices(_, _)
Choices(keys, options) ==
    IF keys = {} THEN {EmptyMap}
    ELSE LET a == CHOOSE x \in keys : TRUE
         IN  {(a :> o) @@ f : o \in options[a], f \in Choices(keys \ {a}, options)}

\* The responses among `outs` that are not nominal.
Deviating(outs, nominal) ==
    [a \in {x \in DOMAIN outs : ~nominal[x, outs[x]]} |-> outs[a]]

Init ==
    /\ civilian_word = EmptyStr
    /\ undercover_word = EmptyStr
    /\ role_assignment = EmptyMap
    /\ speeches = EmptyMap
    /\ history_speeches = <<>>
    /\ speech_reasoning = EmptyMap
    /\ votes = EmptyMap
    /\ vote_reasoning = EmptyMap
    /\ game_status = "running"
    /\ winner = ""
    /\ eliminated = <<>>
    /\ round = 1
    /\ node = "generate_words"
    /\ history_context = <<>>
    /\ speech_context = <<>>
    /\ outputs = EmptyMap
    /\ exception = ""
    /\ deviations = 0

\* A node that raises: the graph run ends with the exception, GameState as
\* the node found it.
Raise(e) ==
    /\ exception' = e
    /\ UNCHANGED <<state, node, history_context, speech_context>>

(***************************************************************************)
(* Node 1: generate_words.                                                 *)
(***************************************************************************)
fallback_pairs ==
    << <<Str("naicha", 2), Str("guozhi", 2)>>,
       <<Str("yashua", 2), Str("yagao", 2)>>,
       <<Str("mifan", 2), Str("miantiao", 2)>>,
       <<Str("shouji", 2), Str("pingban", 2)>>,
       <<Str("lanqiu", 2), Str("zuqiu", 2)>>,
       <<Str("kafei", 2), Str("hongcha", 2)>> >>

\* The pair a well-behaved service answers with.
GoodCivilian == Str("kele", 2)
GoodUndercover == Str("xuebi", 2)

WordOutputs ==
    {Response("raises", Absent, Absent),
     Response("not_json", Absent, Absent),
     Response("not_object", Absent, Absent),
     Response("object", GoodCivilian, GoodUndercover),
     Response("object", Absent, GoodUndercover),
     Response("object", EmptyStr, Scalar)}

WordsNominal(caller, out) ==
    out = Response("object", GoodCivilian, GoodUndercover)

\* Lines 77-80: the exception of the try block, "" if it completes.
WordsError(out) ==
    IF LoadError(out) # "" THEN LoadError(out)
    ELSE IF out.a.t = "absent" \/ out.b.t = "absent" THEN "KeyError"
    ELSE ""

generate_words ==
    /\ node = "generate_words"
    /\ exception = ""
    /\ \E out \in {o \in WordOutputs :
                        deviations < MaxDeviations \/ WordsNominal("generate_words", o)} :
        /\ outputs' = Deviating([c \in {"generate_words"} |-> out],
                                [c \in {"generate_words"}, o \in WordOutputs |->
                                    WordsNominal(c, o)])
        /\ deviations' = deviations + Cardinality(DOMAIN outputs')
        /\ IF out.kind = "raises" THEN Raise("ServiceError")
           ELSE IF ~Caught(WordsError(out)) /\ WordsError(out) # ""
           THEN Raise(WordsError(out))
           ELSE /\ IF Caught(WordsError(out))
                   THEN \E p \in 1..Len(fallback_pairs) :
                            /\ civilian_word' = fallback_pairs[p][1]
                            /\ undercover_word' = fallback_pairs[p][2]
                   ELSE /\ civilian_word' = out.a
                        /\ undercover_word' = out.b
                /\ node' = "assign_roles"
                /\ UNCHANGED <<role_assignment, speeches, history_speeches,
                               speech_reasoning, votes, vote_reasoning,
                               game_status, winner, eliminated, round,
                               history_context, speech_context, exception>>

(***************************************************************************)
(* Node 2: assign_roles.                                                   *)
(***************************************************************************)
\* RoleOf without the if of line 97: every player is a civilian.
RoleOfNoUndercover(agent, undercover) == <<Civilian, civilian_word>>

\* Lines 97-101: the role and the word of a player
RoleOf(agent, undercover) ==
    IF agent = undercover THEN <<Undercover, undercover_word>>
    ELSE <<Civilian, civilian_word>>

assign_roles ==
    /\ node = "assign_roles"
    /\ exception = ""
    /\ \E undercover \in AgentSet :
        role_assignment' = [a \in AgentSet |-> RoleOf(a, undercover)]
    /\ node' = "generate_speeches"
    /\ outputs' = EmptyMap
    /\ UNCHANGED <<civilian_word, undercover_word, speeches, history_speeches,
                   speech_reasoning, votes, vote_reasoning, game_status,
                   winner, eliminated, round, history_context, speech_context,
                   exception, deviations>>

(***************************************************************************)
(* Helpers of the two phases that loop over the players.                   *)
(***************************************************************************)
Eliminated == {eliminated[k] : k \in 1..Len(eliminated)}

\* Skipped without the test: the loops call the service for every player.
NeverSkipped(agent) == FALSE

\* `if agent in state["eliminated"]: continue` (lines 155-156, 244-245)
Skipped(agent) == agent \in Eliminated

\* The players a loop calls the service for.
Callers == {a \in DOMAIN role_assignment : ~Skipped(a)}

\* RoundLines without the filter of lines 129 and 222: every speaker is kept.
RoundLinesUnfiltered(idx, round_speeches, keep) ==
    LET who == SelectSeq(Agents, LAMBDA a : a \in DOMAIN round_speeches)
    IN  [k \in 1..Len(who) |->
            [round |-> idx, agent |-> who[k], speech |-> round_speeches[who[k]]]]

\* One prompt line per item of a round's speeches whose agent is kept.
RoundLines(idx, round_speeches, keep) ==
    LET who == SelectSeq(Agents, LAMBDA a : a \in DOMAIN round_speeches /\ a \in keep)
    IN  [k \in 1..Len(who) |->
            [round |-> idx, agent |-> who[k], speech |-> round_speeches[who[k]]]]

\* for idx, round_speeches in enumerate(hist, 1): the lines of the kept agents
RECURSIVE HistoryLines(_, _)
HistoryLines(hist, keep) ==
    IF hist = <<>> THEN <<>>
    ELSE HistoryLines(SubSeq(hist, 1, Len(hist) - 1), keep)
         \o RoundLines(Len(hist), hist[Len(hist)], keep)

\* The callers, in order, whose iteration raises.
Failing(outs, failure) ==
    SelectSeq(Agents, LAMBDA a : a \in DOMAIN outs /\ failure[a, outs[a]] # "")

(***************************************************************************)
(* Node 3: generate_speeches.                                              *)
(***************************************************************************)
GoodReason == Str("reason", 20)
NominalSpeech == Str("statement", MinSpeechLen)

SpeechOutputs ==
    {Response("raises", Absent, Absent),
     Response("not_json", Absent, Absent),
     Response("not_object", Absent, Absent),
     Response("object", NominalSpeech, GoodReason),
     Response("object", Str("statement", ShortLen), GoodReason),
     Response("object", Scalar, GoodReason)}

SpeechNominal(agent, out) == out = Response("object", NominalSpeech, GoodReason)

\* Lines 160-175: the exception of the try block, "" if it completes.
SpeechError(out) ==
    IF LoadError(out) # "" THEN LoadError(out)
    ELSE IF out.a.t = "absent" \/ out.b.t = "absent" THEN "KeyError"
    ELSE IF out.a.t # "str" THEN "TypeError"
    ELSE ""

\* The exception that leaves one iteration of the loop, "" if none.
SpeechFailure(agent, out) ==
    IF out.kind = "raises" THEN "ServiceError"
    ELSE IF Caught(SpeechError(out)) THEN ""
    ELSE SpeechError(out)

\* Lines 160-189: the statement kept for a response.
SpeechOf(role, current_round, out) ==
    IF Caught(SpeechError(out))
    THEN IF role = Civilian
         THEN Text(current_round, EmptyStr, "civilian_fallback")
         ELSE Text(current_round, EmptyStr, "undercover_fallback")
    ELSE IF out.a.n < MinSpeechLen
    THEN IF role = Civilian
         THEN Text(0, out.a, "civilian_pad")
         ELSE Text(0, out.a, "undercover_pad")
    ELSE Plain(out.a)

\* Lines 164, 186, 189, 191: the strategy note kept for a response.
SpeechReasonOf(role, current_round, out) ==
    IF Caught(SpeechError(out))
    THEN IF role = Civilian
         THEN Text(current_round, EmptyStr, "civilian_fallback_reason")
         ELSE Text(current_round, EmptyStr, "undercover_fallback_reason")
    ELSE Plain(out.b)

\* SpeechNominal and SpeechFailure of every player and response, as tables.
SpeechNominals == [a \in AgentSet, o \in SpeechOutputs |-> SpeechNominal(a, o)]
SpeechFailures == [a \in AgentSet, o \in SpeechOutputs |-> SpeechFailure(a, o)]

generate_speeches ==
    /\ node = "generate_speeches"
    /\ exception = ""
    /\ \E outs \in Profiles(Callers, SpeechOutputs, SpeechNominals,
                            SpeechFailures, MaxDeviations - deviations) :
        LET new == [a \in Callers |->
                       SpeechOf(role_assignment[a][1], round, outs[a])]
        IN
        /\ outputs' = Deviating(outs, SpeechNominals)
        /\ deviations' = deviations + Cardinality(DOMAIN outputs')
        /\ IF Failing(outs, SpeechFailures) # <<>>
           THEN /\ exception' = SpeechFailure(Failing(outs, SpeechFailures)[1],
                                     outs[Failing(outs, SpeechFailures)[1]])
                /\ history_context' = HistoryLines(history_speeches,
                                                   AgentSet \ Eliminated)
                /\ UNCHANGED <<state, node, speech_context>>
           ELSE /\ history_context' = HistoryLines(history_speeches,
                                                   AgentSet \ Eliminated)
                /\ history_speeches' = Append(history_speeches, new)
                /\ speeches' = new
                /\ speech_reasoning' = [a \in Callers |->
                       SpeechReasonOf(role_assignment[a][1], round, outs[a])]
                /\ node' = "vote_undercover"
                /\ UNCHANGED <<civilian_word, undercover_word, role_assignment,
                               votes, vote_reasoning, game_status, winner,
                               eliminated, round, speech_context, exception>>

(***************************************************************************)
(* Node 4: vote_undercover.                                                *)
(***************************************************************************)
\* An agent's name as the service writes it.
Name(agent) == Str(agent, 6)

\* current_agents without the filter of line 210: every player, in or out.
current_agents_all == DOMAIN role_assignment

\* current_agents (line 210), as a set
current_agents == {a \in DOMAIN role_assignment : a \notin Eliminated}

\* SpeechContext without line 215: the earlier rounds only.
SpeechContextNoCurrent ==
    IF history_speeches # <<>>
    THEN HistoryLines(SubSeq(history_speeches, 1, Len(history_speeches) - 1),
                      current_agents)
    ELSE <<>>

\* SpeechContext without the [:-1] of line 219: the history in full, so that
\* the round just spoken is shown a second time as an earlier round.
SpeechContextWholeHistory ==
    RoundLines(round, speeches, DOMAIN speeches)
    \o HistoryLines(history_speeches, current_agents)

\* Lines 214-223: this round's statements, then the earlier rounds' of the
\* players still in the game.
SpeechContext ==
    RoundLines(round, speeches, DOMAIN speeches)
    \o (IF history_speeches # <<>>
        THEN HistoryLines(SubSeq(history_speeches, 1, Len(history_speeches) - 1),
                          current_agents)
        ELSE <<>>)

VoteOutputs ==
    {Response("raises", Absent, Absent),
     Response("not_json", Absent, Absent),
     Response("not_object", Absent, Absent),
     Response("object", Name("agent9"), GoodReason),
     Response("object", Padded("agent2", 6), GoodReason),
     Response("object", Scalar, GoodReason)}
    \cup {Response("object", Name(a), GoodReason) : a \in AgentSet}

\* [a for a in current_agents if a != agent] (lines 260, 268)
Others(agent) == current_agents \ {agent}

\* NeedsOverride without its first test: a vote for oneself stands.
NeedsOverrideNoSelf(vote, agent) ==
    ~(\E c \in current_agents : SameName(vote, c))

\* Line 267: vote == agent or vote not in current_agents
NeedsOverride(vote, agent) ==
    SameName(vote, agent) \/ ~(\E c \in current_agents : SameName(vote, c))

VoteNominal(agent, out) ==
    /\ out.kind = "object"
    /\ out.b = GoodReason
    /\ \E c \in Others(agent) : out.a = Name(c)

\* Lines 252-255: the exception of the try block, "" if it completes.
VoteError(out) ==
    IF LoadError(out) # "" THEN LoadError(out)
    ELSE IF out.a.t = "absent" THEN "KeyError"
    ELSE IF out.a.t # "str" THEN "AttributeError"
    ELSE IF out.b.t = "absent" THEN "KeyError"
    ELSE ""

\* The vote before line 267: a random other player after a caught error,
\* else the stripped field.
FirstVotes(agent, out) ==
    IF Caught(VoteError(out)) THEN {Name(c) : c \in Others(agent)}
    ELSE {strip(out.a)}

\* The exception that leaves one iteration of the loop, "" if none:
\* random.choice of an empty list raises IndexError.
VoteFailure(agent, out) ==
    IF out.kind = "raises" THEN "ServiceError"
    ELSE IF VoteError(out) # "" /\ ~Caught(VoteError(out)) THEN VoteError(out)
    ELSE IF Others(agent) = {}
            /\ (Caught(VoteError(out)) \/ NeedsOverride(strip(out.a), agent))
    THEN "IndexError"
    ELSE ""

\* The targets the loop can record for a response (lines 252-270).
RecordedVotes(agent, out) ==
    UNION { IF NeedsOverride(v, agent) THEN Others(agent) ELSE {v.s} :
            v \in FirstVotes(agent, out) }

\* Lines 255-264: the rationale kept for a response.
VoteReasonOf(current_round, out) ==
    IF Caught(VoteError(out))
    THEN shorten(Text(current_round, EmptyStr, "vote_fallback_reason"), ReasonWidth)
    ELSE Plain(out.b)

\* VoteNominal and VoteFailure of every player and response, as tables.
VoteNominals == [a \in AgentSet, o \in VoteOutputs |-> VoteNominal(a, o)]
VoteFailures == [a \in AgentSet, o \in VoteOutputs |-> VoteFailure(a, o)]

vote_undercover ==
    /\ node = "vote_undercover"
    /\ exception = ""
    /\ \E outs \in Profiles(Callers, VoteOutputs, VoteNominals,
                            VoteFailures, MaxDeviations - deviations) :
        /\ outputs' = Deviating(outs, VoteNominals)
        /\ deviations' = deviations + Cardinality(DOMAIN outputs')
        /\ speech_context' = SpeechContext
        /\ IF Failing(outs, VoteFailures) # <<>>
           THEN /\ exception' = VoteFailure(Failing(outs, VoteFailures)[1],
                                            outs[Failing(outs, VoteFailures)[1]])
                /\ UNCHANGED <<state, node, history_context>>
           ELSE /\ \E new \in Choices(Callers, [a \in Callers |-> RecordedVotes(a, outs[a])]) :
                     votes' = new
                /\ vote_reasoning' = [a \in Callers |-> VoteReasonOf(round, outs[a])]
                /\ node' = "judge_result"
                /\ UNCHANGED <<civilian_word, undercover_word, role_assignment,
                               speeches, history_speeches, speech_reasoning,
                               game_status, winner, eliminated, round,
                               history_context, exception>>

(***************************************************************************)
(* Node 5: judge_result, and the conditional edge that leaves it.          *)
(***************************************************************************)
\* vote_count[v] (lines 282-284)
vote_count(v) == Cardinality({a \in DOMAIN votes : votes[a] = v})

\* Candidates with max(vote_count, key=vote_count.get) in place of lines
\* 285-286: the first target with the most votes, in the order of the votes.
CandidatesFirstOnly ==
    LET top == {v \in Range(votes) :
                   \A w \in Range(votes) : vote_count(w) <= vote_count(v)}
        pos(a) == CHOOSE k \in 1..Len(Agents) : Agents[k] = a
        first(a) == \A b \in DOMAIN votes : votes[b] \in top => pos(a) <= pos(b)
    IN  {votes[a] : a \in {x \in DOMAIN votes : votes[x] \in top /\ first(x)}}

\* Lines 285-286: the targets with the most votes.
Candidates ==
    {v \in Range(votes) : \A w \in Range(votes) : vote_count(w) <= vote_count(v)}

\* Verdict with the winners of lines 299 and 303 exchanged.
VerdictWinnersSwapped(role, civ, uc) ==
    IF role = Undercover
    THEN [game_status |-> "end", winner |-> "undercover", round |-> round]
    ELSE IF civ = 1 /\ uc = 1
    THEN [game_status |-> "end", winner |-> "civilian", round |-> round]
    ELSE [game_status |-> "running", winner |-> winner, round |-> round + 1]

\* Verdict without the elif of line 301: the game goes on at one against one.
VerdictNoDuel(role, civ, uc) ==
    IF role = Undercover
    THEN [game_status |-> "end", winner |-> "civilian", round |-> round]
    ELSE [game_status |-> "running", winner |-> winner, round |-> round + 1]

\* Verdict with line 307 moved before the if: every judgment counts a round.
VerdictAlwaysCounts(role, civ, uc) ==
    IF role = Undercover
    THEN [game_status |-> "end", winner |-> "civilian", round |-> round + 1]
    ELSE IF civ = 1 /\ uc = 1
    THEN [game_status |-> "end", winner |-> "undercover", round |-> round + 1]
    ELSE [game_status |-> "running", winner |-> winner, round |-> round + 1]

\* Verdict that names a winner in the else branch too, before the game ends.
VerdictEarlyWinner(role, civ, uc) ==
    IF role = Undercover
    THEN [game_status |-> "end", winner |-> "civilian", round |-> round]
    ELSE IF civ = 1 /\ uc = 1
    THEN [game_status |-> "end", winner |-> "undercover", round |-> round]
    ELSE [game_status |-> "running", winner |-> "undercover", round |-> round + 1]

\* Verdict with the test of line 301 as civ == 0: the game goes on until no
\* civilian is left.
VerdictLateDuel(role, civ, uc) ==
    IF role = Undercover
    THEN [game_status |-> "end", winner |-> "civilian", round |-> round]
    ELSE IF civ = 0 /\ uc = 1
    THEN [game_status |-> "end", winner |-> "undercover", round |-> round]
    ELSE [game_status |-> "running", winner |-> winner, round |-> round + 1]

\* Verdict that takes the else branch of line 305 whoever was eliminated.
VerdictNeverEnds(role, civ, uc) ==
    [game_status |-> "running", winner |-> winner, round |-> round + 1]

\* Lines 297-307: status, winner and round after the elimination of a player
\* of role `role` that leaves civ civilians and uc undercover agents.
Verdict(role, civ, uc) ==
    IF role = Undercover
    THEN [game_status |-> "end", winner |-> "civilian", round |-> round]
    ELSE IF civ = 1 /\ uc = 1
    THEN [game_status |-> "end", winner |-> "undercover", round |-> round]
    ELSE [game_status |-> "running", winner |-> winner, round |-> round + 1]

\* route that never leaves the loop.
route_always_loops(status) == "generate_speeches"

\* route with the two targets of line 339 exchanged.
route_inverted(status) ==
    IF status = "running" THEN "show_final_result" ELSE "generate_speeches"

\* Lines 338-339
route(status) ==
    IF status = "running" THEN "generate_speeches" ELSE "show_final_result"

judge_result ==
    /\ node = "judge_result"
    /\ exception = ""
    /\ outputs' = EmptyMap
    /\ IF DOMAIN votes = {}
       THEN /\ Raise("ValueError")
            /\ UNCHANGED deviations
       ELSE \E out \in Candidates :
            LET after == Append(eliminated, out)
                role == role_assignment[out][1]
                remaining == {a \in DOMAIN role_assignment :
                                \A k \in 1..Len(after) : after[k] # a}
                civ == Cardinality({a \in remaining : role_assignment[a][1] = Civilian})
                uc == Cardinality({a \in remaining : role_assignment[a][1] = Undercover})
                v == Verdict(role, civ, uc)
            IN
            /\ eliminated' = after
            /\ game_status' = v.game_status
            /\ winner' = v.winner
            /\ round' = v.round
            /\ node' = route(v.game_status)
            /\ UNCHANGED <<civilian_word, undercover_word, role_assignment,
                           speeches, history_speeches, speech_reasoning, votes,
                           vote_reasoning, history_context, speech_context,
                           exception, deviations>>

(***************************************************************************)
(* Node 6: show_final_result, which only prints, and the edge to END.      *)
(***************************************************************************)
show_final_result ==
    /\ node = "show_final_result"
    /\ exception = ""
    /\ node' = "END"
    /\ outputs' = EmptyMap
    /\ UNCHANGED <<state, history_context, speech_context, exception, deviations>>

Next ==
    \/ generate_words
    \/ assign_roles
    \/ generate_speeches
    \/ vote_undercover
    \/ judge_result
    \/ show_final_result

Spec == Init /\ [][Next]_vars

\* game.invoke runs the graph node after node until END or until a node
\* raises: a node that can run does run.
FairSpec == Spec /\ WF_vars(Next)

(***************************************************************************)
(* Vocabulary of the properties.                                           *)
(***************************************************************************)
Last(seq) == seq[Len(seq)]
RoleTag(agent) == role_assignment[agent][1]
Position(agent) == CHOOSE k \in 1..Len(Agents) : Agents[k] = agent

\* Speech phases completed so far: each appends one entry to the history.
SpeechRounds == Len(history_speeches)

\* The round whose voting phase wrote `votes` (0: none has run yet).  The
\* voting phase of the round of the last statements is still to complete
\* exactly while the graph stands at vote_undercover.
VoteRounds == IF node = "vote_undercover" THEN SpeechRounds - 1 ELSE SpeechRounds

\* The players eliminated by the judgments of rounds 1..r.
EliminatedBy(r) == {eliminated[k] : k \in 1..(IF r < Len(eliminated) THEN r ELSE Len(eliminated))}

\* The players still in the game.
Active == AgentSet \ Eliminated

\* A non-empty string
IsWord(v) == v.t = "str" /\ v.n > 0

(***************************************************************************)
(* C1: game_status goes from running to end only inside judge_result; once *)
(* it is end it stays end and only show_final_result and END follow, so no *)
(* speech, vote or judgment runs again; a run that reaches END has ended   *)
(* the game, which makes the change happen exactly once.                   *)
(***************************************************************************)
StatusEndsOnce ==
    [][ /\ (game_status = "running" /\ game_status' = "end"
                => node = "judge_result")
        /\ (game_status = "end"
                => /\ game_status' = "end"
                   /\ node' \in {"show_final_result", "END"}
                   /\ eliminated' = eliminated /\ votes' = votes
                   /\ speeches' = speeches)
        /\ (node' = "END" => game_status' = "end") ]_vars

GameOverAtEnd == node = "END" /\ game_status = "end" /\ round = 2

(***************************************************************************)
(* C2: the judgment that eliminates the undercover agent ends the game     *)
(* with winner civilian, in the state that judgment leaves and ever after, *)
(* whatever the round and the votes.                                       *)
(***************************************************************************)
UndercoverOutEndsGame ==
    (eliminated # <<>> /\ RoleTag(Last(eliminated)) = Undercover)
        => game_status = "end" /\ winner = "civilian"

UndercoverOutInRoundTwo ==
    /\ node = "show_final_result"
    /\ Len(eliminated) = 2
    /\ RoleTag(eliminated[2]) = Undercover
    /\ winner = "civilian"

(***************************************************************************)
(* C3: when the elimination of a judgment leaves exactly one civilian and  *)
(* one undercover agent, that judgment ends the game with winner           *)
(* undercover.                                                             *)
(***************************************************************************)
DuelEndsGame ==
    (/\ eliminated # <<>>
     /\ Cardinality({a \in Active : RoleTag(a) = Civilian}) = 1
     /\ Cardinality({a \in Active : RoleTag(a) = Undercover}) = 1)
        => game_status = "end" /\ winner = "undercover"

DuelReached ==
    /\ node = "show_final_result"
    /\ Cardinality({a \in Active : RoleTag(a) = Civilian}) = 1
    /\ Cardinality({a \in Active : RoleTag(a) = Undercover}) = 1
    /\ winner = "undercover"

(***************************************************************************)
(* C4: every recorded vote names a player other than the voter who was in  *)
(* the game when the vote was cast, and every voter was in the game then,  *)
(* whatever the service answered.                                          *)
(***************************************************************************)
VotesLegal ==
    \A a \in DOMAIN votes :
        /\ votes[a] # a
        /\ votes[a] \in AgentSet \ EliminatedBy(VoteRounds - 1)
        /\ a \in AgentSet \ EliminatedBy(VoteRounds - 1)

\* A voter of round 2 named itself or a player already out, and the vote
\* recorded for it is legal.
IllegalVoteOverridden ==
    /\ node = "judge_result"
    /\ round = 2
    /\ \E a \in DOMAIN outputs :
        /\ outputs[a].kind = "object"
        /\ outputs[a].a.s \in Eliminated \cup {a}
        /\ votes[a] \in Active \ {a}

(***************************************************************************)
(* C5: a call of the service that raises takes the fallback of the phase   *)
(* and no exception leaves the graph run.                                  *)
(***************************************************************************)
ServiceFailureTakesFallback ==
    (\E a \in DOMAIN outputs : outputs[a].kind = "raises") => exception = ""

(***************************************************************************)
(* C6: generate_words never raises on a response of the service, and once  *)
(* it has run both words are non-empty strings.                            *)
(***************************************************************************)
WordsAlwaysValid ==
    /\ node = "generate_words" => exception \in {"", "ServiceError"}
    /\ node # "generate_words" => IsWord(civilian_word) /\ IsWord(undercover_word)

(***************************************************************************)
(* C7 as claimed: a player in eliminated is a key of neither speeches nor  *)
(* votes, nor of a history entry of a later round, in every state.         *)
(***************************************************************************)
EliminatedNeverKeyed ==
    \A p \in 1..Len(eliminated) :
        /\ eliminated[p] \notin DOMAIN speeches
        /\ eliminated[p] \notin DOMAIN votes
        /\ \A k \in (p + 1)..Len(history_speeches) :
               eliminated[p] \notin DOMAIN history_speeches[k]

(***************************************************************************)
(* C7 as amended: the player eliminated in round p is a key of no history  *)
(* entry of a later round, of speeches once a later speech phase has       *)
(* written it, and of votes once a later voting phase has written it; but  *)
(* until then (and in the final state) it still is a key of the speeches   *)
(* and votes of round p, which judge_result does not prune.                *)
(***************************************************************************)
EliminatedLeaveOnRewrite ==
    \A p \in 1..Len(eliminated) :
        /\ \A k \in (p + 1)..Len(history_speeches) :
               eliminated[p] \notin DOMAIN history_speeches[k]
        /\ (eliminated[p] \in DOMAIN speeches) <=> (SpeechRounds = p)
        /\ (eliminated[p] \in DOMAIN votes) <=> (VoteRounds = p)

SecondRoundWithoutEliminated ==
    /\ node = "judge_result"
    /\ Len(eliminated) = 1
    /\ SpeechRounds = 2
    /\ eliminated[1] \in DOMAIN history_speeches[1]
    /\ eliminated[1] \notin DOMAIN speeches

(***************************************************************************)
(* C8 as claimed: the context given to a later player of a phase holds the *)
(* same-round output of every earlier player.  For the speech phase: once  *)
(* a speech phase has completed, the context its requests were given holds *)
(* a line of this round for every speaker but the last.                    *)
(***************************************************************************)
LaterSpeakersSeeEarlier ==
    (exception = "" /\ SpeechRounds >= 1)
        => \A a \in DOMAIN speeches :
               (\E b \in DOMAIN speeches : Position(a) < Position(b))
                   => \E k \in 1..Len(history_context) :
                          /\ history_context[k].agent = a
                          /\ history_context[k].round = SpeechRounds

\* The statements in `speeches` and the context in `speech_context` belong
\* to the same round: a voting phase has built its context since the last
\* speech phase.
VoteContextCurrent == VoteRounds >= 1 /\ VoteRounds = SpeechRounds

(***************************************************************************)
(* C8 as amended: each phase builds one context before its first request   *)
(* and gives it to every player, in the order of the players.  The context *)
(* of a speech phase holds statements of earlier rounds only, by players   *)
(* still in the game, so no speaker sees a statement of its own round;     *)
(* the context of a voting phase holds the statement of this round of      *)
(* every player in the game, as stored, in the order of the players.       *)
(***************************************************************************)
ContextsBuiltBeforeLoop ==
    /\ \A k \in 1..Len(history_context) :
          /\ history_context[k].round < (IF node = "generate_speeches" /\ exception # ""
                                         THEN SpeechRounds + 1 ELSE SpeechRounds)
          /\ history_context[k].speech
                = history_speeches[history_context[k].round][history_context[k].agent]
    /\ VoteContextCurrent
          => /\ \A a \in DOMAIN speeches :
                   \E k \in 1..Len(speech_context) :
                       speech_context[k] = [round |-> SpeechRounds, agent |-> a,
                                            speech |-> speeches[a]]
             /\ \A j, k \in 1..Len(speech_context) :
                   (j < k /\ speech_context[j].round = speech_context[k].round)
                       => Position(speech_context[j].agent)
                              < Position(speech_context[k].agent)

VotersSawSecondRound ==
    /\ node = "judge_result"
    /\ SpeechRounds = 2
    /\ Len(history_context) = 3
    /\ Len(speech_context) = 6

(***************************************************************************)
(* C9: a speech phase always completes, whatever the service answers, and  *)
(* leaves a non-empty statement for every player in the game and for no    *)
(* one else.                                                               *)
(***************************************************************************)
SpeechPhaseAlwaysCompletes ==
    /\ node = "generate_speeches" => exception \in {"", "ServiceError"}
    /\ (SpeechRounds >= 1 /\ node = "vote_undercover")
          => /\ DOMAIN speeches = Active
             /\ \A a \in Active : TextLen(speeches[a]) > 0

(***************************************************************************)
(* C10: round is 1 at the start, a judgment that continues the game adds   *)
(* exactly 1, a judgment that ends the game and every other node leave it  *)
(* unchanged.                                                              *)
(***************************************************************************)
RoundCounts ==
    /\ round = 1
    /\ [][ IF node = "judge_result" /\ eliminated' # eliminated
           THEN /\ game_status' = "running" => round' = round + 1
                /\ game_status' = "end" => round' = round
           ELSE round' = round ]_vars

BothJudgmentsSeen ==
    node = "END" /\ round = 2 /\ Len(eliminated) = 2

(***************************************************************************)
(* C11: eliminated never names a player twice and names only players of    *)
(* the original set; a completed game has eliminated at least one player;  *)
(* eliminated changes only in judge_result, by appending one player, and   *)
(* every judgment appends one.                                             *)
(***************************************************************************)
EliminatedAppendOnly ==
    /\ [](/\ \A j, k \in 1..Len(eliminated) : j # k => eliminated[j] # eliminated[k]
          /\ Eliminated \subseteq AgentSet
          /\ game_status = "end" => Len(eliminated) >= 1)
    /\ [][ /\ eliminated' # eliminated
               => /\ node = "judge_result"
                  /\ \E a \in AgentSet : eliminated' = Append(eliminated, a)
           /\ (node = "judge_result" /\ node' # node)
               => Len(eliminated') = Len(eliminated) + 1 ]_vars

TwoDifferentEliminated ==
    /\ game_status = "end"
    /\ Len(eliminated) = 2
    /\ eliminated[1] # eliminated[2]
    /\ node = "show_final_result"

(***************************************************************************)
(* C12: in a completed game the winner is the civilian side exactly when   *)
(* the last eliminated player is the undercover agent, and the undercover  *)
(* side exactly when the last eliminated player is a civilian and the      *)
(* undercover agent was never eliminated; while the game is running the    *)
(* winner is unset.                                                        *)
(***************************************************************************)
WinnerMatchesLastEliminated ==
    /\ game_status = "running" => winner = ""
    /\ game_status = "end"
          => /\ winner \in {"civilian", "undercover"}
             /\ winner = "civilian" <=> RoleTag(Last(eliminated)) = Undercover
             /\ winner = "undercover"
                    <=> /\ RoleTag(Last(eliminated)) = Civilian
                        /\ \A a \in Eliminated : RoleTag(a) # Undercover

UndercoverWinsAfterTwoCivilians ==
    /\ game_status = "end"
    /\ winner = "undercover"
    /\ Len(eliminated) = 2
    /\ RoleTag(eliminated[1]) = Civilian
    /\ RoleTag(eliminated[2]) = Civilian

(***************************************************************************)
(* C13: once the roles are assigned, exactly one player of the original    *)
(* four holds the undercover role, with the undercover word, and every     *)
(* other player the civilian role with the civilian word; the words and    *)
(* the roles never change after they are written; generate_words and       *)
(* assign_roles each run once, before the first speech phase, and the      *)
(* graph never returns to them.                                            *)
(***************************************************************************)
RolesFixed ==
    /\ [](node \notin {"generate_words", "assign_roles"}
            => /\ DOMAIN role_assignment = AgentSet
               /\ Cardinality({a \in AgentSet : RoleTag(a) = Undercover}) = 1
               /\ \A a \in AgentSet :
                     \/ role_assignment[a] = <<Undercover, undercover_word>>
                     \/ role_assignment[a] = <<Civilian, civilian_word>>)
    /\ [][ /\ node \notin {"generate_words", "assign_roles"}
               => /\ UNCHANGED <<civilian_word, undercover_word, role_assignment>>
                  /\ node' \notin {"generate_words", "assign_roles"}
           /\ <<civilian_word, undercover_word>>' # <<civilian_word, undercover_word>>
               => node = "generate_words" /\ node' = "assign_roles"
           /\ role_assignment' # role_assignment
               => node = "assign_roles" /\ node' = "generate_speeches"
           /\ node' = "generate_words" => node = "generate_words"
           /\ node' = "assign_roles" => node \in {"generate_words", "assign_roles"} ]_vars

ThirdPlayerUndercoverToTheEnd ==
    /\ node = "END"
    /\ role_assignment["agent3"] = <<Undercover, undercover_word>>
    /\ undercover_word = fallback_pairs[2][2]

(***************************************************************************)
(* C14: the context of a speech phase and the context of a voting phase    *)
(* hold no statement, of any round, of a player that was eliminated when   *)
(* the context was built, while every statement of an eliminated player    *)
(* stays in history_speeches.                                              *)
(***************************************************************************)
ContextsOmitEliminated ==
    /\ \A k \in 1..Len(history_context) :
          history_context[k].agent
              \notin (IF node = "generate_speeches" /\ exception # ""
                      THEN Eliminated ELSE EliminatedBy(SpeechRounds - 1))
    /\ \A k \in 1..Len(speech_context) :
          speech_context[k].agent
              \notin (IF node = "vote_undercover" /\ exception # ""
                      THEN Eliminated ELSE EliminatedBy(VoteRounds - 1))
    /\ \A k \in 1..Len(eliminated) :
          /\ k <= SpeechRounds
          /\ \A j \in 1..k : eliminated[k] \in DOMAIN history_speeches[j]

SecondRoundContextsBuilt ==
    /\ node = "judge_result"
    /\ round = 2
    /\ Len(eliminated) = 1
    /\ Len(history_context) = 3
    /\ Len(speech_context) = 6
    /\ Cardinality(DOMAIN history_speeches[1]) = 4

(***************************************************************************)
(* C15: the player a judgment eliminates is one of the targets with the    *)
(* most votes in votes, and at a judgment every target with the most       *)
(* votes can be the one eliminated: a tie excludes no tied target.         *)
(***************************************************************************)
EliminatedHasMostVotes ==
    LET top == {v \in Range(votes) :
                   \A w \in Range(votes) : vote_count(w) <= vote_count(v)}
    IN  /\ (Len(eliminated) >= 1 /\ node # "judge_result")
              => Last(eliminated) \in top
        /\ (node = "judge_result" /\ exception = "")
              => \A c \in top :
                    ENABLED (judge_result /\ eliminated' = Append(eliminated, c))

LaterTiedTargetEliminated ==
    /\ node = "generate_speeches"
    /\ Len(eliminated) = 1
    /\ vote_count("agent1") = 2
    /\ vote_count("agent3") = 2
    /\ eliminated[1] = "agent3"

(***************************************************************************)
(* C16: the graph runs generate_words, assign_roles, and then              *)
(* generate_speeches, vote_undercover, judge_result in turn, the three of  *)
(* them within one round; after a judgment it returns to generate_speeches *)
(* exactly when game_status is running and goes to show_final_result       *)
(* otherwise, from where it ends and runs nothing again.                   *)
(***************************************************************************)
PhasesInOrder ==
    /\ [](node \in {"vote_undercover", "judge_result"} => SpeechRounds = round)
    /\ [][ node' # node
            => /\ node = "generate_words" => node' = "assign_roles"
               /\ node = "assign_roles" => node' = "generate_speeches"
               /\ node = "generate_speeches"
                     => node' = "vote_undercover" /\ round' = round
               /\ node = "vote_undercover"
                     => /\ node' = "judge_result" /\ round' = round
                        /\ DOMAIN votes' = DOMAIN speeches
               /\ node = "judge_result"
                     => /\ node' = "generate_speeches" <=> game_status' = "running"
                        /\ node' = "show_final_result" <=> game_status' # "running"
               /\ node = "show_final_result" => node' = "END"
               /\ node # "END" ]_vars

ReportAfterLoopingOnce ==
    /\ node = "show_final_result"
    /\ SpeechRounds = 2
    /\ round = 2
    /\ winner = "civilian"

(***************************************************************************)
(* C17: history_speeches changes only when a speech phase appends the      *)
(* statements of its round, which every completed speech phase does, so    *)
(* after the speech phase of round r it has r entries and the last one is  *)
(* speeches; the context of the voting phase shows every statement of the  *)
(* round once, as the current round, and the rounds before it as earlier   *)
(* rounds, as the history holds them.                                      *)
(***************************************************************************)
HistoryAppendOnly ==
    /\ [](/\ SpeechRounds >= 1 => Last(history_speeches) = speeches
          /\ node \in {"vote_undercover", "judge_result"} => SpeechRounds = round
          /\ VoteContextCurrent
                => /\ \A j, k \in 1..Len(speech_context) :
                         j # k => \/ speech_context[j].round # speech_context[k].round
                                  \/ speech_context[j].agent # speech_context[k].agent
                   /\ \A k \in 1..Len(speech_context) :
                         /\ speech_context[k].round \in 1..SpeechRounds
                         /\ speech_context[k].speech
                              = history_speeches[speech_context[k].round][speech_context[k].agent]
                   /\ \A r \in 1..SpeechRounds : \A a \in DOMAIN speeches :
                         \E k \in 1..Len(speech_context) :
                             speech_context[k].round = r /\ speech_context[k].agent = a)
    /\ [][ /\ history_speeches' # history_speeches
               => /\ node = "generate_speeches"
                  /\ history_speeches' = Append(history_speeches, speeches')
           /\ (node = "generate_speeches" /\ node' # node)
               => Len(history_speeches') = Len(history_speeches) + 1 ]_vars

TwoEntriesThenVote ==
    /\ node = "judge_result"
    /\ Len(history_speeches) = 2
    /\ history_speeches[2] = speeches
    /\ DOMAIN history_speeches[1] # DOMAIN history_speeches[2]
    /\ speech_context[1].round = 2
    /\ speech_context[4].round = 1

(***************************************************************************)
(* C18: provided no call to the service raises, every game eventually      *)
(* ends: game_status becomes end and the final report has run, whatever    *)
(* the service answers and whatever the random choices are.                *)
(***************************************************************************)
EveryGameEnds ==
    [](exception # "ServiceError") => <>(node = "END" /\ game_status = "end")

(***************************************************************************)
(* C19: with four players, one of them undercover, the game ends at the    *)
(* first or the second judgment: round is at most 2, at most 2 players are *)
(* eliminated, a speech phase starts with round - 1 players eliminated,    *)
(* and an ended game has eliminated as many players as round counts.       *)
(***************************************************************************)
EndsBySecondJudgment ==
    /\ round \in 1..2
    /\ Len(eliminated) <= 2
    /\ (node = "generate_speeches" /\ game_status = "running")
          => Len(eliminated) = round - 1
    /\ game_status = "end" => Len(eliminated) = round

SecondSpeechPhaseStarts ==
    /\ node = "generate_speeches"
    /\ exception = ""
    /\ round = 2
    /\ Len(eliminated) = 1
    /\ RoleTag(eliminated[1]) = Civilian

(***************************************************************************)
(* C20: at least 3 players are in the game at every voting phase, so the   *)
(* random choice among the other players is never a choice from an empty   *)
(* list; every player in the game, and no one else, has exactly one vote   *)
(* in votes when the judgment runs, and the judgment never takes the       *)
(* maximum of an empty tally.                                              *)
(***************************************************************************)
VotersNeverAlone ==
    /\ node = "vote_undercover"
          => /\ Cardinality(current_agents) >= 3
             /\ \A a \in current_agents : Others(a) # {}
    /\ exception \notin {"IndexError", "ValueError"}
    /\ node = "judge_result"
          => /\ DOMAIN votes = Active
             /\ votes # EmptyMap
             /\ Candidates # {}

FallbackVoteAmongThree ==
    /\ node = "judge_result"
    /\ Cardinality(Active) = 3
    /\ \E a \in DOMAIN outputs : outputs[a].kind = "not_json"
    /\ DOMAIN votes = Active

====
